---- MODULE Spec2Model ----
(***************************************************************************)
(* A model of nvitop/core/process.py: the HostProcess and GpuProcess       *)
(* registries, the auto_garbage_clean eviction policy, the gpu-memory and  *)
(* type fields of a GpuProcess, and the per-tick host snapshot cache used  *)
(* by GpuProcess.as_snapshot().                                            *)
(*                                                                         *)
(* Every call is executed by a thread as a sequence of steps; one step is  *)
(* one access to shared state (a dict lookup, a dict store, an attribute   *)
(* write, an OS query).  A `with LOCK:` block whose body is one dict       *)
(* operation is one step (acquire, operate, release).  The writes of       *)
(* __init__ to an object that __new__ has not stored yet are one step: no  *)
(* other thread can reach the object.                                      *)
(***************************************************************************)
EXTENDS Integers, Sequences, FiniteSets, TLC

\* ------------------------------------------------------------------ bounds
NumPids == 2
NumDevices == 2
NumThreads == 2
MaxGpu == 3
MaxHost == 3
MaxGathers == 2
MaxArgs == 3
MaxArgLen == 2
MaxTime == 3

Pids == 1..NumPids
Devices == 0..(NumDevices - 1)
Threads == 1..NumThreads
GpuIds == 1..MaxGpu
HostIds == 1..MaxHost

\* ------------------------------------------------------------------ values
\* The argument default None of gpu_memory and type, the 'N/A' sentinel, and
\* the absence of the attribute (hasattr(self, '_gpu_memory') is false).
NoneArg == -2
NA == -1
Unset == -3
MemVals == {512, 2048}
MemArgs == MemVals \cup {NoneArg}

\* A type string is a sequence of letters.
NoType == <<"None">>
UnsetType == <<"unset">>
TypeStrings == {<< >>, <<"C">>, <<"G">>, <<"X">>, <<"C", "G">>, <<"G", "C">>}
TypeArgs == {<<"C">>, <<"G">>, NoType}

UnsetHuman == [n |-> 0, unit |-> "unset"]

bytes2humanRaw(x) ==
    IF x = NA THEN [n |-> 0, unit |-> "N/A"]
    ELSE IF x < 1024 THEN [n |-> x, unit |-> "B"]
    ELSE [n |-> x \div 1024, unit |-> "KiB"]

bytes2human(x) == bytes2humanRaw(x)

\* ------------------------------------------------------------ type setter
Has(letter, value) == \E i \in DOMAIN value : value[i] = letter

TypeAddC(cur, value) == IF Has("C", value) THEN cur \o <<"C">> ELSE cur

TypeAddG(cur, value) == IF Has("G", value) THEN cur \o <<"G">> ELSE cur

TypeCollapseNoX(cur, value) == IF cur = <<"C", "G">> THEN <<"X">> ELSE cur

TypeCollapse(cur, value) ==
    IF Has("X", value) \/ cur = <<"C", "G">> THEN <<"X">> ELSE cur

\* The whole setter, run without interference.
type_setter(value) ==
    TypeCollapse(TypeAddG(TypeAddC(<< >>, value), value), value)

\* ------------------------------------------- add_quotes and command()
\* A string is a sequence of characters; NUL is the character '\\0'.
NUL == "NUL"

Chars == {"e", " ", "$", "\"", "'", "\\"}

RECURSIVE StringsUpTo(_)
StringsUpTo(n) ==
    IF n = 0 THEN {<< >>}
    ELSE StringsUpTo(n - 1) \cup
         {Append(x, c) : x \in {y \in StringsUpTo(n - 1) : Len(y) = n - 1}, c \in Chars}

\* The argument vectors the OS can report: up to MaxArgs arguments of up to
\* MaxArgLen characters.
RECURSIVE VectorsUpTo(_)
VectorsUpTo(n) ==
    IF n = 0 THEN {<< >>}
    ELSE VectorsUpTo(n - 1) \cup
         {Append(v, a) : v \in {w \in VectorsUpTo(n - 1) : Len(w) = n - 1},
                         a \in StringsUpTo(MaxArgLen)}

CmdVectors == VectorsUpTo(MaxArgs)

In(c, str) == \E i \in DOMAIN str : str[i] = c

\* sep.join(strs).
RECURSIVE Joined(_, _)
Joined(sep, strs) ==
    IF Len(strs) = 0 THEN << >>
    ELSE IF Len(strs) = 1 THEN strs[1]
    ELSE strs[1] \o sep \o Joined(sep, Tail(strs))

\* str.strip('\\0').
RECURSIVE LStripped(_)
LStripped(str) ==
    IF Len(str) > 0 /\ str[1] = NUL THEN LStripped(Tail(str)) ELSE str

RECURSIVE RStripped(_)
RStripped(str) ==
    IF Len(str) > 0 /\ str[Len(str)] = NUL
    THEN RStripped(SubSeq(str, 1, Len(str) - 1))
    ELSE str

Stripped(str) == RStripped(LStripped(str))

\* str.split('\\0'): the pieces between the NULs, one piece for a string
\* without NUL (the empty string included).
RECURSIVE Split(_)
Split(str) ==
    IF ~In(NUL, str) THEN <<str>>
    ELSE LET i == CHOOSE j \in DOMAIN str :
                      str[j] = NUL /\ \A k \in 1..(j - 1) : str[k] # NUL
         IN <<SubSeq(str, 1, i - 1)>> \o Split(SubSeq(str, i + 1, Len(str)))

\* s.replace('\\\\', '\\\\\\\\').replace('"', '\\"').replace('$', '\\$').
RECURSIVE Escaped(_)
Escaped(str) ==
    IF Len(str) = 0 THEN << >>
    ELSE (IF str[1] \in {"\\", "\"", "$"} THEN <<"\\", str[1]>> ELSE <<str[1]>>)
         \o Escaped(Tail(str))

\* add_quotes, lines 20-31 (the POSIX dialect).
add_quotes(str) ==
    IF str = << >> THEN <<"\"", "\"">>
    ELSE IF ~In("$", str) /\ ~In("\\", str) /\ ~In(" ", str) THEN str
    ELSE IF ~In("$", str) /\ ~In("\\", str) /\ ~In("\"", str)
         THEN <<"\"">> \o str \o <<"\"">>
    ELSE IF ~In("'", str) THEN <<"'">> \o str \o <<"'">>
    ELSE <<"\"">> \o Escaped(str) \o <<"\"">>

Quoted(strs) == [i \in DOMAIN strs |-> add_quotes(strs[i])]

\* HostProcess.command, lines 110-115, on the argument vector cmdline() gave;
\* as_snapshot, lines 300-305, does the same to the gathered command line.
Renormalised(cmdline) ==
    IF Len(cmdline) > 1 THEN Split(Stripped(Joined(<<NUL>>, cmdline))) ELSE cmdline

command(cmdline) ==
    LET c == Renormalised(cmdline) IN
    IF Len(c) = 1 THEN c[1] ELSE Joined(<<" ">>, Quoted(c))

\* The placeholders of a vanished process and of an empty command line.
NoSuchProcess == <<"N", "o", " ", "S", "u", "c", "h", " ", "P", "r", "o", "c", "e", "s", "s">>
ZombieProcess == <<"Z", "o", "m", "b", "i", "e", " ", "P", "r", "o", "c", "e", "s", "s">>

\* ------------------------------------------------ the display strings
\* A percentage is a binary fraction: the integer v stands for v / Frac, which
\* a float holds exactly, so that '{:.1f}' rounds the exact value, a tie going
\* to the even tenth.
Frac == 32

OneDecimal(v) ==
    LET q == (v * 10) \div Frac
        r == (v * 10) % Frac
        tenths == IF 2 * r > Frac \/ (2 * r = Frac /\ q % 2 = 1) THEN q + 1 ELSE q
    IN ToString(tenths \div 10) \o "." \o ToString(tenths % 10) \o "%"

\* as_snapshot, lines 287-292.
cpu_percent_string(v) ==
    IF v < 1000 * Frac THEN OneDecimal(v)
    ELSE IF v < 10000 * Frac THEN ToString(v \div Frac) \o "%"
    ELSE "9999+%"

\* ------------------------------------------------------------ OS queries
Queries == <<"username", "name", "cmdline", "cpu_percent", "memory_percent",
             "running_time">>

OkVals(k) ==
    CASE k = "username" -> {"root"}
      [] k = "name" -> {"python"}
      [] k = "cmdline" -> {<<<<"e">>, <<"e", "e">>>>}
      [] k = "cpu_percent" -> {0, 25 * Frac}
      [] k = "memory_percent" -> {10 * Frac}
      [] k = "running_time" -> {60}

\* The default each auto_garbage_clean wrapper returns.  running_time never
\* sees the failure: create_time() absorbs it and returns the time of import,
\* so the running time is the time elapsed since import.
SinceImport == 7
QueryDefault(k) ==
    CASE k = "username" -> "N/A"
      [] k = "name" -> "N/A"
      [] k = "cmdline" -> <<NoSuchProcess>>
      [] k = "cpu_percent" -> 0
      [] k = "memory_percent" -> 0
      [] k = "running_time" -> SinceImport

\* cpu_percent, memory_percent and running_time sit behind a ttl_cache: a call
\* on a vanished process returns the cached value while the entry is fresh.
TtlCached == {"cpu_percent", "memory_percent", "running_time"}

\* ------------------------------------------------------------------- state
VARIABLES
    running,         \* OS: running[pid], whether the process still exists
    HostINSTANCES,   \* HostProcess.INSTANCES: pid -> host handle (0: no key)
    GpuINSTANCES,    \* GpuProcess.INSTANCES: <<pid, device>> -> handle (0: no key)
    HOST_SNAPSHOTS,  \* GpuProcess.HOST_SNAPSHOTS: pid -> host snapshot
    CLI_MODE,        \* GpuProcess.CLI_MODE
    gpuLock,         \* owner of GpuProcess.INSTANCE_LOCK (0: free)
    snapLock,        \* owner of GpuProcess.SNAPSHOT_LOCK (0: free)
    hostPid,         \* heap of HostProcess objects: id -> pid (0: not allocated)
    gpu,             \* heap of GpuProcess objects: id -> fields
    th,              \* th[t]: the call thread t is running, and where it is
    obs,             \* what a test harness records of the run (see NoObs)
    tyLog,           \* per object: the type string assigned last, the letters ever assigned
    now,             \* time.monotonic(), in half time units
    ttlCache,        \* per cached method: the entries of its ttl_cache, least recently used first
    ttlLog           \* what a test harness records of the cached calls (see NoTtlLog)

ttlVars == <<now, ttlCache, ttlLog>>

vars == <<running, HostINSTANCES, GpuINSTANCES, HOST_SNAPSHOTS, CLI_MODE,
          gpuLock, snapLock, hostPid, gpu, th, obs, tyLog, ttlVars>>

\* The methods of HostProcess behind a ttl_cache, lines 101-103.
TtlMethods == {"cpu_percent", "memory_percent"}

\* ttl=1.0, in the half time units of the clock.
Ttl == 2

\* The maxsize ttl_cache takes when none is given.
maxsize == 128

\* A call the harness remembers: the value it returned and when.
NoCall == [some |-> FALSE, val |-> 0, at |-> 0]

\* Per method: the last successful call on each host handle of the observed
\* pid, and the last OS query for the observed pid.
NoTtlLog ==
    [called |-> [m \in TtlMethods |-> [hh \in HostIds |-> NoCall]],
     measured |-> [m \in TtlMethods |-> [p \in Pids |-> NoCall]]]

\* The cached call a thread runs: the method, the host handle, what the harness
\* remembered when the call began, and the handle that stored the entry a hit
\* returned.
NoTtlCall ==
    [m |-> "none", hh |-> 0, called |-> NoCall, measured |-> NoCall, by |-> 0]

\* A human duration, and the 'N/A' shown for a process that is not running.
NoDuration == [h |-> 0, m |-> 0, s |-> 0, na |-> TRUE]

timedelta2human(x) ==
    [h |-> x \div 3600, m |-> (x % 3600) \div 60, s |-> x % 60, na |-> FALSE]

NoHostSnapshot ==
    [some |-> FALSE, is_running |-> FALSE, username |-> "", name |-> "",
     cmdline |-> << >>, command |-> << >>, cpu_percent |-> 0,
     cpu_percent_string |-> "", memory_percent |-> 0,
     memory_percent_string |-> "", running_time |-> 0,
     running_time_human |-> NoDuration]

NoSnapshot ==
    [some |-> FALSE, real |-> 0, gpu_memory |-> Unset,
     gpu_memory_human |-> UnsetHuman, type |-> UnsetType,
     host |-> NoHostSnapshot]

NoGpu ==
    [pid |-> 0, dev |-> 0, host |-> 0, mem |-> Unset, human |-> UnsetHuman,
     type |-> UnsetType, username |-> "", pub |-> FALSE]

IdleThread ==
    [pc |-> "idle", op |-> "none", pid |-> 0, dev |-> 0, mem |-> NoneArg,
     ty |-> NoType, self |-> 0, inst |-> 0, hinst |-> 0, phase |-> "none",
     tyv |-> << >>, q |-> 0, evret |-> "none", failed |-> {}, hit |-> FALSE,
     isNew |-> FALSE, fresh |-> TRUE,
     hs |-> NoHostSnapshot, retH |-> 0, retV |-> 0, retS |-> NoSnapshot,
     argv |-> << >>, retC |-> << >>, gathered |-> NoHostSnapshot,
     had |-> FALSE, ttl |-> NoTtlCall]

\* What a test harness records beside the program: per pid, the host-data
\* gathers since the pid's cache entry was last dropped (the tick), the devices,
\* threads of the as_snapshot() calls that returned a snapshot since then,
\* whether CLI_MODE was set all through the tick, and the host values of the
\* snapshots returned in such a tick; per key, the handle the last finished constructor call returned
\* (0 once the key is evicted); and the handles that were evicted.
NoTick == [devs |-> {}, threads |-> {}, vals |-> {}, cli |-> FALSE]

NewTick == [NoTick EXCEPT !.cli = CLI_MODE]

\* The pid whose OS collaborator carries the harness's call counter.
Observed == {CHOOSE p \in Pids : \A q \in Pids : p <= q}

\* The record o of an event of pid p, kept if the harness observes p.
Note(p, o) == IF p \in Observed THEN o ELSE obs

NoObs ==
    [gathers |-> [p \in Pids |-> 0],
     tick |-> [p \in Pids |-> NoTick],
     retHost |-> [p \in Pids |-> 0],
     retGpu |-> [k \in Pids \X Devices |-> 0],
     evHost |-> {},
     evGpu |-> {}]

\* The harness's log of the assignments to one object's type.
NoLog == [last |-> UnsetType, flags |-> {}]

Letters(value) == {value[i] : i \in DOMAIN value}

Logged(log, h, value) ==
    [log EXCEPT ![h] = [last |-> value, flags |-> @.flags \cup Letters(value)]]

NextGpu == IF \E h \in GpuIds : gpu[h].pid = 0
           THEN CHOOSE h \in GpuIds : gpu[h].pid = 0 /\ \A k \in GpuIds : k < h => gpu[k].pid # 0
           ELSE 0

NextHost == IF \E h \in HostIds : hostPid[h] = 0
            THEN CHOOSE h \in HostIds : hostPid[h] = 0 /\ \A k \in HostIds : k < h => hostPid[k] # 0
            ELSE 0

\* Handles a caller can hold: those that were stored in the registry.
Published == {h \in GpuIds : gpu[h].pub}

Init ==
    /\ running = [p \in Pids |-> TRUE]
    /\ HostINSTANCES = [p \in Pids |-> 0]
    /\ GpuINSTANCES = [k \in Pids \X Devices |-> 0]
    /\ HOST_SNAPSHOTS = [p \in Pids |-> NoHostSnapshot]
    /\ CLI_MODE = FALSE
    /\ gpuLock = 0
    /\ snapLock = 0
    /\ hostPid = [h \in HostIds |-> 0]
    /\ gpu = [h \in GpuIds |-> NoGpu]
    /\ th = [t \in Threads |-> IdleThread]
    /\ obs = NoObs
    /\ tyLog = [h \in GpuIds |-> NoLog]
    /\ now = 0
    /\ ttlCache = [m \in TtlMethods |-> << >>]
    /\ ttlLog = NoTtlLog

Set(t, r) == th' = [th EXCEPT ![t] = r]

\* A caller takes the result of its call before anything else runs: the return
\* touches no shared state.
NoneDone == \A u \in Threads : th[u].pc # "done"

At(t, l) == th[t].pc = l /\ NoneDone

\* A finished call: what the caller can see of it.
Done(r) ==
    [IdleThread EXCEPT !.pc = "done", !.op = r.op, !.pid = r.pid, !.dev = r.dev,
                       !.mem = r.mem, !.ty = r.ty,
                       !.self = r.self, !.failed = r.failed, !.hit = r.hit,
                       !.isNew = r.isNew, !.fresh = r.fresh, !.retS = r.retS,
                       !.argv = r.argv, !.retC = r.retC, !.gathered = r.gathered,
                       !.ttl = r.ttl]

\* Thread t moves to r, and the as_snapshot() calls of the threads of S are no
\* longer of the current tick: their pid's cache entry was dropped after they
\* passed the cache.
SetAnd(t, r, S) ==
    th' = [u \in Threads |->
              IF u = t THEN r
              ELSE IF u \in S THEN [th[u] EXCEPT !.fresh = FALSE]
              ELSE th[u]]

SnapshotCallsOf(p) == {u \in Threads : th[u].op = "as_snapshot" /\ th[u].pid = p}
Me(t) == th[t]

\* ------------------------------------------------------------ the OS
\* The process pid exits.
Vanish(p) ==
    /\ NoneDone
    /\ running[p]
    /\ running' = [running EXCEPT ![p] = FALSE]
    /\ UNCHANGED <<ttlVars, HostINSTANCES, GpuINSTANCES, HOST_SNAPSHOTS, CLI_MODE,
                   gpuLock, snapLock, hostPid, gpu, th, obs, tyLog>>

\* -------------------------------------------------- HostProcess(pid)
CallHostProcess(t, p) ==
    /\ At(t, "idle")
    /\ Set(t, [IdleThread EXCEPT !.pc = "h_new", !.op = "HostProcess", !.pid = p])
    /\ UNCHANGED <<ttlVars, running, HostINSTANCES, GpuINSTANCES, HOST_SNAPSHOTS,
                   CLI_MODE, gpuLock, snapLock, hostPid, gpu, obs, tyLog>>

\* Where a thread goes when HostProcess(pid) has returned the handle hh.
AfterHost(r, hh) ==
    IF r.op = "HostProcess"
    THEN [Done(r) EXCEPT !.retH = hh]
    ELSE [r EXCEPT !.pc = "i_host", !.hinst = hh]

\* The harness notes the handle a nested HostProcess(pid) returned; that of a
\* caller's own call is noted when the caller takes it.
NoteHost(r, hh) ==
    IF r.op = "HostProcess" THEN obs ELSE [obs EXCEPT !.retHost[r.pid] = hh]

\* HostProcess.__new__, lines 78-81: INSTANCES[pid], or nothing on a KeyError.
HostLookupMiss(p) == 0

HostLookup(p) == HostINSTANCES[p]

\* HostProcess.__new__, lines 78-84: the lookup outside the lock; on a miss the
\* new object is built and initialised, not yet stored.
HostProcessNew(t) ==
    /\ At(t, "h_new")
    /\ IF HostLookup(Me(t).pid) # 0
       THEN /\ Set(t, AfterHost(Me(t), HostLookup(Me(t).pid)))
            /\ obs' = NoteHost(Me(t), HostLookup(Me(t).pid))
            /\ UNCHANGED hostPid
       ELSE /\ NextHost # 0
            /\ hostPid' = [hostPid EXCEPT ![NextHost] = Me(t).pid]
            /\ Set(t, [Me(t) EXCEPT !.pc = "h_store", !.hinst = NextHost])
            /\ UNCHANGED obs
    /\ UNCHANGED <<ttlVars, running, HostINSTANCES, GpuINSTANCES, HOST_SNAPSHOTS,
                   CLI_MODE, gpuLock, snapLock, gpu, tyLog>>

\* HostProcess.__new__, lines 85-87: the store under HostProcess.INSTANCE_LOCK.
HostProcessStore(t) ==
    /\ At(t, "h_store")
    /\ HostINSTANCES' = [HostINSTANCES EXCEPT ![Me(t).pid] = Me(t).hinst]
    /\ Set(t, AfterHost(Me(t), Me(t).hinst))
    /\ obs' = NoteHost(Me(t), Me(t).hinst)
    /\ UNCHANGED <<ttlVars, running, GpuINSTANCES, HOST_SNAPSHOTS, CLI_MODE, gpuLock,
                   snapLock, hostPid, gpu, tyLog>>

\* ------------------------------- GpuProcess(pid, device, gpu_memory, type)
CallGpuProcess(t, p, d, m, ty) ==
    /\ At(t, "idle")
    /\ Set(t, [IdleThread EXCEPT !.pc = "g_new", !.op = "GpuProcess", !.pid = p,
                                 !.dev = d, !.mem = m, !.ty = ty])
    /\ UNCHANGED <<ttlVars, running, HostINSTANCES, GpuINSTANCES, HOST_SNAPSHOTS,
                   CLI_MODE, gpuLock, snapLock, hostPid, gpu, obs, tyLog>>

GpuLookup(p, d) == GpuINSTANCES[<<p, d>>]

\* GpuProcess.__new__, lines 129-135: the lookup outside the lock.  A hit
\* returns the registered object, on which the call then runs __init__ with the
\* arguments; a miss allocates a new object and runs __init__ on it.
GpuProcessNew(t) ==
    /\ At(t, "g_new")
    /\ IF GpuLookup(Me(t).pid, Me(t).dev) # 0
       THEN /\ Set(t, [Me(t) EXCEPT !.pc = "h_new", !.phase = "outer",
                                    !.inst = GpuLookup(Me(t).pid, Me(t).dev)])
            /\ UNCHANGED gpu
       ELSE /\ NextGpu # 0
            /\ gpu' = [gpu EXCEPT ![NextGpu] =
                          [NoGpu EXCEPT !.pid = Me(t).pid, !.dev = Me(t).dev]]
            /\ Set(t, [Me(t) EXCEPT !.pc = "h_new", !.phase = "inner",
                                    !.inst = NextGpu, !.isNew = TRUE])
    /\ UNCHANGED <<ttlVars, running, HostINSTANCES, GpuINSTANCES, HOST_SNAPSHOTS,
                   CLI_MODE, gpuLock, snapLock, hostPid, obs, tyLog>>

\* The value __init__ passes on: an omitted argument becomes the default only
\* when the attribute does not exist yet.
MemAlwaysDefault(arg, cur) == IF arg = NoneArg THEN NA ELSE arg

MemToSet(arg, cur) == IF arg = NoneArg /\ cur = Unset THEN NA ELSE arg

TypeToSet(arg, cur) == IF arg = NoType /\ cur = UnsetType THEN << >> ELSE arg

\* GpuProcess.__init__, lines 146-160, run on an object o that no other thread
\* can reach yet (__new__ has not stored it): the writes are one step.
InitPrivate(o, hh, m, ty) ==
    LET v == MemToSet(m, o.mem)
        w == TypeToSet(ty, o.type)
        o1 == [o EXCEPT !.host = hh]
        o2 == IF v # NoneArg
              THEN [o1 EXCEPT !.mem = v, !.human = bytes2human(v)]
              ELSE o1
        o3 == IF w # NoType THEN [o2 EXCEPT !.type = type_setter(w)] ELSE o2
    IN [o3 EXCEPT !.username = ""]

\* Where __init__ goes on a registered object: the next statement that reads or
\* writes the object.
AfterSetHost(r, o) ==
    IF MemToSet(r.mem, o.mem) # NoneArg THEN "i_mem"
    ELSE IF TypeToSet(r.ty, o.type) # NoType THEN "i_type"
    ELSE "i_fin"

AfterSetMem(r, o) ==
    IF r.op = "set_gpu_memory" THEN "done"
    ELSE IF TypeToSet(r.ty, o.type) # NoType THEN "i_type"
    ELSE "i_fin"

\* GpuProcess.__init__, line 147: self.host = HostProcess(pid).
InitHost(t) ==
    /\ At(t, "i_host")
    /\ IF Me(t).phase = "inner"
       THEN /\ gpu' = [gpu EXCEPT ![Me(t).inst] =
                          InitPrivate(@, Me(t).hinst, Me(t).mem, Me(t).ty)]
            /\ tyLog' = Logged(tyLog, Me(t).inst,
                               TypeToSet(Me(t).ty, gpu[Me(t).inst].type))
            /\ Set(t, [Me(t) EXCEPT !.pc = "g_store"])
       ELSE /\ gpu' = [gpu EXCEPT ![Me(t).inst].host = Me(t).hinst]
            /\ UNCHANGED tyLog
            /\ Set(t, [Me(t) EXCEPT !.pc = AfterSetHost(Me(t), gpu[Me(t).inst])])
    /\ UNCHANGED <<ttlVars, running, HostINSTANCES, GpuINSTANCES, HOST_SNAPSHOTS,
                   CLI_MODE, gpuLock, snapLock, hostPid, obs>>

\* GpuProcess.__init__, lines 151-154, and set_gpu_memory, line 200.
InitMem(t) ==
    /\ At(t, "i_mem")
    /\ gpu' = [gpu EXCEPT ![Me(t).inst].mem = MemToSet(Me(t).mem, @)]
    /\ Set(t, [Me(t) EXCEPT !.pc = "s_human"])
    /\ UNCHANGED <<ttlVars, running, HostINSTANCES, GpuINSTANCES, HOST_SNAPSHOTS,
                   CLI_MODE, gpuLock, snapLock, hostPid, obs, tyLog>>

\* set_gpu_memory, line 201: the human string of the value read back now.
SetHuman(t) ==
    /\ At(t, "s_human")
    /\ gpu' = [gpu EXCEPT ![Me(t).inst].human = bytes2human(gpu[Me(t).inst].mem)]
    /\ Set(t, IF AfterSetMem(Me(t), gpu[Me(t).inst]) = "done"
              THEN Done(Me(t))
              ELSE [Me(t) EXCEPT !.pc = AfterSetMem(Me(t), gpu[Me(t).inst])])
    /\ UNCHANGED <<ttlVars, running, HostINSTANCES, GpuINSTANCES, HOST_SNAPSHOTS,
                   CLI_MODE, gpuLock, snapLock, hostPid, obs, tyLog>>

\* GpuProcess.__init__, lines 155-158, and the setter's line 215.
\* An assignment proc.type = value by a caller.
CallSetType(t, h, v) ==
    /\ At(t, "idle")
    /\ h \in Published
    /\ Set(t, [IdleThread EXCEPT !.pc = "i_type", !.op = "type", !.self = h,
                                 !.inst = h, !.ty = v,
                                 !.pid = gpu[h].pid, !.dev = gpu[h].dev])
    /\ UNCHANGED <<ttlVars, running, HostINSTANCES, GpuINSTANCES, HOST_SNAPSHOTS,
                   CLI_MODE, gpuLock, snapLock, hostPid, gpu, obs, tyLog>>

InitType(t) ==
    /\ At(t, "i_type")
    /\ gpu' = [gpu EXCEPT ![Me(t).inst].type = << >>]
    /\ Set(t, [Me(t) EXCEPT !.pc = "ty_c",
                            !.tyv = TypeToSet(Me(t).ty, gpu[Me(t).inst].type)])
    /\ UNCHANGED <<ttlVars, running, HostINSTANCES, GpuINSTANCES, HOST_SNAPSHOTS,
                   CLI_MODE, gpuLock, snapLock, hostPid, obs, tyLog>>

\* The setter, lines 216-217.
TypeSetC(t) ==
    /\ At(t, "ty_c")
    /\ gpu' = [gpu EXCEPT ![Me(t).inst].type = TypeAddC(@, Me(t).tyv)]
    /\ Set(t, [Me(t) EXCEPT !.pc = "ty_g"])
    /\ UNCHANGED <<ttlVars, running, HostINSTANCES, GpuINSTANCES, HOST_SNAPSHOTS,
                   CLI_MODE, gpuLock, snapLock, hostPid, obs, tyLog>>

\* The setter, lines 218-219.
TypeSetG(t) ==
    /\ At(t, "ty_g")
    /\ gpu' = [gpu EXCEPT ![Me(t).inst].type = TypeAddG(@, Me(t).tyv)]
    /\ Set(t, [Me(t) EXCEPT !.pc = "ty_x"])
    /\ UNCHANGED <<ttlVars, running, HostINSTANCES, GpuINSTANCES, HOST_SNAPSHOTS,
                   CLI_MODE, gpuLock, snapLock, hostPid, obs, tyLog>>

\* The setter, lines 220-221.
TypeSetX(t) ==
    /\ At(t, "ty_x")
    /\ gpu' = [gpu EXCEPT ![Me(t).inst].type = TypeCollapse(@, Me(t).tyv)]
    /\ tyLog' = Logged(tyLog, Me(t).inst, Me(t).tyv)
    /\ Set(t, IF Me(t).op = "type" THEN Done(Me(t)) ELSE [Me(t) EXCEPT !.pc = "i_fin"])
    /\ UNCHANGED <<ttlVars, running, HostINSTANCES, GpuINSTANCES, HOST_SNAPSHOTS,
                   CLI_MODE, gpuLock, snapLock, hostPid, obs>>

\* GpuProcess.__init__, lines 159-160, in the __init__ that follows __new__:
\* the call returns.
InitFin(t) ==
    /\ At(t, "i_fin")
    /\ gpu' = [gpu EXCEPT ![Me(t).inst].username = ""]
    /\ Set(t, IF Me(t).op = "update_gpu_memory"
              THEN [Me(t) EXCEPT !.pc = "u_ret"]
              ELSE [Done(Me(t)) EXCEPT !.retH = Me(t).inst])
    /\ obs' = IF Me(t).op = "update_gpu_memory"
              THEN [obs EXCEPT !.retGpu[<<Me(t).pid, Me(t).dev>>] = Me(t).inst]
              ELSE obs
    /\ UNCHANGED <<ttlVars, running, HostINSTANCES, GpuINSTANCES, HOST_SNAPSHOTS,
                   CLI_MODE, gpuLock, snapLock, hostPid, tyLog>>

\* GpuProcess.__new__, lines 136-137: take INSTANCE_LOCK and store.
GpuProcessStore(t) ==
    /\ At(t, "g_store")
    /\ gpuLock \in {0, t}
    /\ gpuLock' = t
    /\ GpuINSTANCES' = [GpuINSTANCES EXCEPT ![<<Me(t).pid, Me(t).dev>>] = Me(t).inst]
    /\ gpu' = [gpu EXCEPT ![Me(t).inst].pub = TRUE]
    /\ Set(t, [Me(t) EXCEPT !.pc = "g_inval"])
    /\ UNCHANGED <<ttlVars, running, HostINSTANCES, HOST_SNAPSHOTS, CLI_MODE, snapLock,
                   hostPid, obs, tyLog>>

InvalidatedNever(cache, p) == cache

Invalidated(cache, p) == [cache EXCEPT ![p] = NoHostSnapshot]

\* GpuProcess.__new__, lines 138-143: still holding INSTANCE_LOCK, take
\* SNAPSHOT_LOCK, drop the pid's host snapshot, release both.
GpuProcessInvalidate(t) ==
    /\ At(t, "g_inval")
    /\ snapLock \in {0, t}
    /\ HOST_SNAPSHOTS' = Invalidated(HOST_SNAPSHOTS, Me(t).pid)
    /\ gpuLock' = 0
    /\ obs' = Note(Me(t).pid, [obs EXCEPT !.gathers[Me(t).pid] = 0,
                                          !.tick[Me(t).pid] = NewTick])
    /\ SetAnd(t, [Me(t) EXCEPT !.pc = "h_new", !.phase = "outer",
                            !.hit = HOST_SNAPSHOTS[Me(t).pid].some],
              SnapshotCallsOf(Me(t).pid))
    /\ UNCHANGED <<ttlVars, running, HostINSTANCES, GpuINSTANCES, CLI_MODE, snapLock,
                   hostPid, gpu, tyLog>>

\* ------------------------------------------------ auto_garbage_clean
\* Where a thread goes when the eviction is over.
AfterEvict(r) ==
    CASE r.evret = "q_done" -> [Done(r) EXCEPT !.retV = QueryDefault("cpu_percent")]
      [] r.evret = "a_none" -> [Done(r) EXCEPT !.retS = NoSnapshot]
      [] r.evret = "a_query" ->
            [r EXCEPT !.pc = IF r.q = Len(Queries) THEN "a_derive" ELSE "a_query",
                      !.q = IF r.q = Len(Queries) THEN r.q ELSE r.q + 1,
                      !.had = FALSE]

EvictedGpuNot(reg, h) == reg

EvictedGpuOfPid(reg, h) == [k \in DOMAIN reg |-> IF k[1] = gpu[h].pid THEN 0 ELSE reg[k]]

EvictedGpu(reg, h) == [reg EXCEPT ![<<gpu[h].pid, gpu[h].dev>>] = 0]

EvictedHostNot(reg, h) == reg

EvictedHost(reg, h) == [reg EXCEPT ![gpu[h].pid] = 0]

\* auto_garbage_clean, lines 54-58.
EvictGpu(t) ==
    /\ At(t, "e_gpu")
    /\ gpuLock \in {0, t}
    /\ GpuINSTANCES' = EvictedGpu(GpuINSTANCES, Me(t).self)
    /\ Set(t, [Me(t) EXCEPT !.pc = "e_host",
                            !.had = GpuINSTANCES[<<gpu[Me(t).self].pid,
                                                   gpu[Me(t).self].dev>>] # 0])
    /\ LET k == <<gpu[Me(t).self].pid, gpu[Me(t).self].dev>> IN
         obs' = [obs EXCEPT !.retGpu[k] = 0,
                            !.evGpu = @ \cup ({GpuINSTANCES[k]} \ {0})]
    /\ UNCHANGED <<ttlVars, running, HostINSTANCES, HOST_SNAPSHOTS, CLI_MODE, gpuLock,
                   snapLock, hostPid, gpu, tyLog>>

\* auto_garbage_clean, lines 59-64.
EvictHost(t) ==
    /\ At(t, "e_host")
    /\ HostINSTANCES' = EvictedHost(HostINSTANCES, Me(t).self)
    /\ Set(t, AfterEvict(Me(t)))
    /\ LET p == gpu[Me(t).self].pid IN
         obs' = [obs EXCEPT !.retHost[p] = 0,
                            !.evHost = @ \cup ({HostINSTANCES[p]} \ {0})]
    /\ UNCHANGED <<ttlVars, running, GpuINSTANCES, HOST_SNAPSHOTS, CLI_MODE, gpuLock,
                   snapLock, hostPid, gpu, tyLog>>

\* ------------------------------------------- GpuProcess.cpu_percent()
\* Whether a query on handle h can raise "no such process", and can succeed.
CanRaise(k, h) == ~running[gpu[h].pid]
CanSucceed(k, h) == running[gpu[h].pid] \/ k \in TtlCached

CallCpuPercent(t, h) ==
    /\ At(t, "idle")
    /\ h \in Published
    /\ Set(t, [IdleThread EXCEPT !.pc = "q_top", !.op = "cpu_percent", !.self = h,
                                 !.pid = gpu[h].pid, !.dev = gpu[h].dev])
    /\ UNCHANGED <<ttlVars, running, HostINSTANCES, GpuINSTANCES, HOST_SNAPSHOTS,
                   CLI_MODE, gpuLock, snapLock, hostPid, gpu, obs, tyLog>>

\* GpuProcess.cpu_percent, lines 245-247, under auto_garbage_clean(default=0.0).
CpuPercent(t) ==
    /\ At(t, "q_top")
    /\ \E ok \in BOOLEAN :
         IF ok
         THEN /\ CanSucceed("cpu_percent", Me(t).self)
              /\ \E v \in OkVals("cpu_percent") :
                    Set(t, [Done(Me(t)) EXCEPT !.retV = v])
         ELSE /\ CanRaise("cpu_percent", Me(t).self)
              /\ Set(t, [Me(t) EXCEPT !.pc = "e_gpu", !.evret = "q_done",
                                      !.failed = {"cpu_percent"}])
    /\ UNCHANGED <<ttlVars, running, HostINSTANCES, GpuINSTANCES, HOST_SNAPSHOTS,
                   CLI_MODE, gpuLock, snapLock, hostPid, gpu, obs, tyLog>>

\* ------------------------------------------- GpuProcess.as_snapshot()
CallAsSnapshot(t, h) ==
    /\ At(t, "idle")
    /\ h \in Published
    /\ obs.gathers[gpu[h].pid] < MaxGathers
    /\ Set(t, [IdleThread EXCEPT !.pc = "a_lock", !.op = "as_snapshot", !.self = h,
                                 !.pid = gpu[h].pid, !.dev = gpu[h].dev])
    /\ UNCHANGED <<ttlVars, running, HostINSTANCES, GpuINSTANCES, HOST_SNAPSHOTS,
                   CLI_MODE, gpuLock, snapLock, hostPid, gpu, obs, tyLog>>

CacheLookupMiss(p) == NoHostSnapshot

CacheLookup(p) == HOST_SNAPSHOTS[p]

\* as_snapshot, lines 270-274: take SNAPSHOT_LOCK and look the pid up.  A hit
\* leaves the locked section at once; a miss starts to gather host data with
\* the lock held.
AsSnapshotLock(t) ==
    /\ At(t, "a_lock")
    /\ snapLock \in {0, t}
    /\ IF CacheLookup(Me(t).pid).some
       THEN /\ Set(t, [Me(t) EXCEPT !.pc = "a_mem", !.hit = TRUE, !.fresh = TRUE,
                                    !.hs = CacheLookup(Me(t).pid)])
            /\ UNCHANGED <<snapLock, obs>>
       ELSE /\ snapLock' = t
            /\ obs' = Note(Me(t).pid, [obs EXCEPT !.gathers[Me(t).pid] = @ + 1])
            /\ Set(t, [Me(t) EXCEPT !.pc = "a_running", !.fresh = TRUE])
    /\ UNCHANGED <<ttlVars, running, HostINSTANCES, GpuINSTANCES, HOST_SNAPSHOTS,
                   CLI_MODE, gpuLock, hostPid, gpu, tyLog>>

\* What is_running() can answer for pid p: False for a vanished process and,
\* where the OS reuses pids, also for a pid under which another process now
\* runs, whose status() and other queries succeed.
Alive(p, reuse) == IF running[p] /\ reuse THEN BOOLEAN ELSE {running[p]}

\* as_snapshot, line 277: is_running().
GatherIsRunningOf(t, reuse) ==
    /\ At(t, "a_running")
    /\ \E b \in Alive(Me(t).pid, reuse) :
          Set(t, [Me(t) EXCEPT !.pc = "a_status",
                               !.hs = [Me(t).hs EXCEPT !.is_running = b]])
    /\ UNCHANGED <<ttlVars, running, HostINSTANCES, GpuINSTANCES, HOST_SNAPSHOTS,
                   CLI_MODE, gpuLock, snapLock, hostPid, gpu, obs, tyLog>>

GatherIsRunning(t) == GatherIsRunningOf(t, FALSE)

GatherIsRunningReused(t) == GatherIsRunningOf(t, TRUE)

\* as_snapshot, line 278: status() is not wrapped; its failure leaves both
\* with-blocks, which releases SNAPSHOT_LOCK, and reaches the wrapper of
\* as_snapshot (default None).
GatherStatus(t) ==
    /\ At(t, "a_status")
    /\ IF running[Me(t).pid]
       THEN /\ Set(t, [Me(t) EXCEPT !.pc = "a_query", !.q = 1])
            /\ UNCHANGED snapLock
       ELSE /\ snapLock' = 0
            /\ Set(t, [Me(t) EXCEPT !.pc = "e_gpu", !.evret = "a_none",
                                    !.failed = @ \cup {"status"}])
    /\ UNCHANGED <<ttlVars, running, HostINSTANCES, GpuINSTANCES, HOST_SNAPSHOTS,
                   CLI_MODE, gpuLock, hostPid, gpu, obs, tyLog>>

\* The next query of the gather, or the end of it.
NextQuery(r) ==
    IF r.q = Len(Queries) THEN [r EXCEPT !.pc = "a_derive"]
    ELSE [r EXCEPT !.pc = "a_query", !.q = r.q + 1]

\* GpuProcess.cmdline, lines 255-258.
CmdlineOf(v) == IF Len(v) = 0 THEN <<ZombieProcess>> ELSE v

Answer(k, v) == IF k = "cmdline" THEN CmdlineOf(v) ELSE v

\* A wider range of cpu percentages and command lines the OS can report.
CpuVals ==
    {0, Frac \div 4, (3 * Frac) \div 4, 25 * Frac, 1000 * Frac - 4, 1000 * Frac - 1,
     1000 * Frac, 10000 * Frac - 3, 10000 * Frac, 10000 * Frac + 1}

ShownCmdlines ==
    {<< >>, <<<<"e">>>>, <<<<"e", " ", "e">>>>, <<<<"e">>, << >>>>,
     <<<<"e">>, <<"e", " ">>>>, <<<<"$">>, <<"e">>>>}

ShownVals(k, wide) ==
    CASE wide /\ k = "cmdline" -> ShownCmdlines
      [] wide /\ k = "cpu_percent" -> CpuVals
      [] OTHER -> OkVals(k)

\* as_snapshot, lines 279-284: username(), name(), cmdline(), cpu_percent(),
\* memory_percent(), running_time(), each under its own auto_garbage_clean: a
\* failure evicts with SNAPSHOT_LOCK held and the gather goes on with the
\* default.  username() answers from self._username once it is set.
GatherQueryOf(t, wide) ==
    /\ At(t, "a_query")
    /\ LET k == Queries[Me(t).q]
           h == Me(t).self IN
       IF k = "username" /\ gpu[h].username # ""
       THEN /\ Set(t, NextQuery([Me(t) EXCEPT !.hs = [Me(t).hs EXCEPT ![k] = gpu[h].username]]))
            /\ UNCHANGED gpu
       ELSE \E ok \in BOOLEAN :
              IF ok
              THEN /\ CanSucceed(k, h)
                   /\ \E v \in ShownVals(k, wide) :
                        /\ Set(t, NextQuery([Me(t) EXCEPT !.hs = [Me(t).hs EXCEPT ![k] = Answer(k, v)]]))
                        /\ gpu' = IF k = "username"
                                  THEN [gpu EXCEPT ![h].username = v]
                                  ELSE gpu
              ELSE /\ CanRaise(k, h)
                   /\ Set(t, [Me(t) EXCEPT !.pc = "e_gpu", !.evret = "a_query",
                                           !.failed = @ \cup {k},
                                           !.hs = [Me(t).hs EXCEPT ![k] = QueryDefault(k)]])
                   /\ UNCHANGED gpu
    /\ UNCHANGED <<ttlVars, running, HostINSTANCES, GpuINSTANCES, HOST_SNAPSHOTS,
                   CLI_MODE, gpuLock, snapLock, hostPid, obs, tyLog>>

GatherQuery(t) == GatherQueryOf(t, FALSE)

\* The same gather with the wider range of answers.
GatherShown(t) == GatherQueryOf(t, TRUE)

\* as_snapshot, line 299: the command line of a process that is not running.
OverriddenNot(cmdline) == cmdline

Overridden(cmdline) == <<NoSuchProcess>>

\* as_snapshot, lines 287-305: the display strings, the override for a process
\* that is not running, and the command of the resulting command line.
Derived(hs) ==
    LET c == IF hs.is_running THEN hs.cmdline ELSE Overridden(hs.cmdline) IN
    [hs EXCEPT !.some = TRUE,
               !.cpu_percent_string = cpu_percent_string(hs.cpu_percent),
               !.memory_percent_string = OneDecimal(hs.memory_percent),
               !.running_time_human = IF hs.is_running
                                      THEN timedelta2human(hs.running_time)
                                      ELSE NoDuration,
               !.cmdline = Renormalised(c),
               !.command = command(c)]

StoredNever(cache, p, hs) == cache

Stored(cache, p, hs) == IF CLI_MODE THEN [cache EXCEPT ![p] = hs] ELSE cache

\* as_snapshot, lines 287-308: derive the display fields, store the host
\* snapshot when CLI_MODE is set, and leave the locked section.
GatherDerive(t) ==
    /\ At(t, "a_derive")
    /\ HOST_SNAPSHOTS' = Stored(HOST_SNAPSHOTS, Me(t).pid, Derived(Me(t).hs))
    /\ snapLock' = 0
    /\ Set(t, [Me(t) EXCEPT !.pc = "a_mem", !.hs = Derived(Me(t).hs),
                            !.gathered = Me(t).hs])
    /\ UNCHANGED <<ttlVars, running, HostINSTANCES, GpuINSTANCES, CLI_MODE, gpuLock,
                   hostPid, gpu, obs, tyLog>>

\* as_snapshot, line 315: gpu_memory=self.gpu_memory().
SnapshotMem(t) ==
    /\ At(t, "a_mem")
    /\ Set(t, [Me(t) EXCEPT !.pc = "a_human",
                            !.retS = [Me(t).retS EXCEPT !.gpu_memory = gpu[Me(t).self].mem]])
    /\ UNCHANGED <<ttlVars, running, HostINSTANCES, GpuINSTANCES, HOST_SNAPSHOTS,
                   CLI_MODE, gpuLock, snapLock, hostPid, gpu, obs, tyLog>>

\* as_snapshot, line 316: gpu_memory_human=self.gpu_memory_human().
SnapshotHuman(t) ==
    /\ At(t, "a_human")
    /\ Set(t, [Me(t) EXCEPT !.pc = "a_type",
                            !.retS = [Me(t).retS EXCEPT
                                         !.gpu_memory_human = gpu[Me(t).self].human]])
    /\ UNCHANGED <<ttlVars, running, HostINSTANCES, GpuINSTANCES, HOST_SNAPSHOTS,
                   CLI_MODE, gpuLock, snapLock, hostPid, gpu, obs, tyLog>>

\* as_snapshot, lines 317-329: type=self.type and the host-derived fields.
SnapshotCompose(t) ==
    /\ At(t, "a_type")
    /\ Set(t, [Done(Me(t)) EXCEPT
                            !.retS = [Me(t).retS EXCEPT !.some = TRUE,
                                         !.real = Me(t).self,
                                         !.type = gpu[Me(t).self].type,
                                         !.host = Me(t).hs]])
    /\ obs' = IF Me(t).fresh /\ Me(t).pid \in Observed
              THEN [obs EXCEPT !.tick[Me(t).pid] =
                       [@ EXCEPT !.devs = @ \cup {Me(t).dev},
                                 !.threads = @ \cup {t},
                                 !.vals = IF obs.tick[Me(t).pid].cli
                                          THEN @ \cup {Me(t).hs} ELSE @]]
              ELSE obs
    /\ UNCHANGED <<ttlVars, running, HostINSTANCES, GpuINSTANCES, HOST_SNAPSHOTS,
                   CLI_MODE, gpuLock, snapLock, hostPid, gpu, tyLog>>

\* GpuProcess.clear_host_snapshots(), lines 263-266.
ClearHostSnapshots(t) ==
    /\ At(t, "idle")
    /\ snapLock \in {0, t}
    /\ HOST_SNAPSHOTS' = [p \in Pids |-> NoHostSnapshot]
    /\ obs' = [obs EXCEPT !.gathers = [p \in Pids |-> 0],
                          !.tick = [p \in Pids |->
                                      IF p \in Observed THEN NewTick ELSE NoTick]]
    /\ SetAnd(t, Me(t), {u \in Threads : th[u].op = "as_snapshot"})
    /\ UNCHANGED <<ttlVars, running, HostINSTANCES, GpuINSTANCES, CLI_MODE, gpuLock,
                   snapLock, hostPid, gpu, tyLog>>

\* A caller sets the class attribute GpuProcess.CLI_MODE.
SetCliMode(t, b) ==
    /\ At(t, "idle")
    /\ CLI_MODE # b
    /\ CLI_MODE' = b
    /\ obs' = [obs EXCEPT !.tick = [p \in Pids |-> [@[p] EXCEPT !.cli = @ /\ b]]]
    /\ UNCHANGED <<ttlVars, running, HostINSTANCES, GpuINSTANCES, HOST_SNAPSHOTS,
                   gpuLock, snapLock, hostPid, gpu, th, tyLog>>

\* ---------------------------- set_gpu_memory() and update_gpu_memory()
CallSetGpuMemory(t, h, v) ==
    /\ At(t, "idle")
    /\ h \in Published
    /\ Set(t, [IdleThread EXCEPT !.pc = "s_mem", !.op = "set_gpu_memory", !.self = h,
                                 !.inst = h, !.mem = v,
                                 !.pid = gpu[h].pid, !.dev = gpu[h].dev])
    /\ UNCHANGED <<ttlVars, running, HostINSTANCES, GpuINSTANCES, HOST_SNAPSHOTS,
                   CLI_MODE, gpuLock, snapLock, hostPid, gpu, obs, tyLog>>

\* set_gpu_memory, line 200.
SetMem(t) ==
    /\ At(t, "s_mem")
    /\ gpu' = [gpu EXCEPT ![Me(t).inst].mem = Me(t).mem]
    /\ Set(t, [Me(t) EXCEPT !.pc = "s_human"])
    /\ UNCHANGED <<ttlVars, running, HostINSTANCES, GpuINSTANCES, HOST_SNAPSHOTS,
                   CLI_MODE, gpuLock, snapLock, hostPid, obs, tyLog>>

CallUpdateGpuMemory(t, h) ==
    /\ At(t, "idle")
    /\ h \in Published
    /\ Set(t, [IdleThread EXCEPT !.pc = "u_mem", !.op = "update_gpu_memory",
                                 !.self = h, !.pid = gpu[h].pid, !.dev = gpu[h].dev])
    /\ UNCHANGED <<ttlVars, running, HostINSTANCES, GpuINSTANCES, HOST_SNAPSHOTS,
                   CLI_MODE, gpuLock, snapLock, hostPid, gpu, obs, tyLog>>

UpdateMemKept(t) ==
    /\ At(t, "u_mem")
    /\ Set(t, [Me(t) EXCEPT !.pc = "u_human"])
    /\ UNCHANGED <<ttlVars, running, HostINSTANCES, GpuINSTANCES, HOST_SNAPSHOTS,
                   CLI_MODE, gpuLock, snapLock, hostPid, gpu, obs, tyLog>>

\* update_gpu_memory, line 204.
UpdateMem(t) ==
    /\ At(t, "u_mem")
    /\ gpu' = [gpu EXCEPT ![Me(t).self].mem = NA]
    /\ Set(t, [Me(t) EXCEPT !.pc = "u_human"])
    /\ UNCHANGED <<ttlVars, running, HostINSTANCES, GpuINSTANCES, HOST_SNAPSHOTS,
                   CLI_MODE, gpuLock, snapLock, hostPid, obs, tyLog>>

\* update_gpu_memory, line 205.
UpdateHuman(t) ==
    /\ At(t, "u_human")
    /\ gpu' = [gpu EXCEPT ![Me(t).self].human = bytes2human(NA)]
    /\ Set(t, [Me(t) EXCEPT !.pc = "u_proc"])
    /\ UNCHANGED <<ttlVars, running, HostINSTANCES, GpuINSTANCES, HOST_SNAPSHOTS,
                   CLI_MODE, gpuLock, snapLock, hostPid, obs, tyLog>>

\* update_gpu_memory, line 206: self.device.processes().  The device either
\* reports the pid with its memory, which runs GpuProcess(pid, device,
\* gpu_memory, type), or does not report it.
DeviceProcesses(t) ==
    /\ At(t, "u_proc")
    /\ \E m \in MemArgs :
         IF m = NoneArg
         THEN Set(t, [Me(t) EXCEPT !.pc = "u_ret"])
         ELSE Set(t, [Me(t) EXCEPT !.pc = "g_new", !.mem = m, !.ty = <<"C">>])
    /\ UNCHANGED <<ttlVars, running, HostINSTANCES, GpuINSTANCES, HOST_SNAPSHOTS,
                   CLI_MODE, gpuLock, snapLock, hostPid, gpu, obs, tyLog>>

\* update_gpu_memory, line 207.
UpdateReturn(t) ==
    /\ At(t, "u_ret")
    /\ Set(t, [Done(Me(t)) EXCEPT !.retV = gpu[Me(t).self].mem])
    /\ UNCHANGED <<ttlVars, running, HostINSTANCES, GpuINSTANCES, HOST_SNAPSHOTS,
                   CLI_MODE, gpuLock, snapLock, hostPid, gpu, obs, tyLog>>

\* The caller takes the result.
Return(t) ==
    /\ Me(t).pc = "done"
    /\ Set(t, IdleThread)
    /\ obs' = CASE Me(t).op = "HostProcess" ->
                     [obs EXCEPT !.retHost[Me(t).pid] = Me(t).retH]
                [] Me(t).op = "GpuProcess" ->
                     [obs EXCEPT !.retGpu[<<Me(t).pid, Me(t).dev>>] = Me(t).retH]
                [] OTHER -> obs
    /\ UNCHANGED <<ttlVars, running, HostINSTANCES, GpuINSTANCES, HOST_SNAPSHOTS,
                   CLI_MODE, gpuLock, snapLock, hostPid, gpu, tyLog>>

\* ------------------------------------------- HostProcess.command()
\* HostProcess.command() on a registered host handle; the OS reports argv.
CallCommand(t, hh) ==
    /\ At(t, "idle")
    /\ \E p \in Pids : HostINSTANCES[p] = hh /\ hh # 0
    /\ \E argv \in CmdVectors :
          Set(t, [IdleThread EXCEPT !.pc = "c_cmd", !.op = "command", !.hinst = hh,
                                   !.pid = hostPid[hh], !.argv = argv])
    /\ UNCHANGED <<ttlVars, running, HostINSTANCES, GpuINSTANCES, HOST_SNAPSHOTS,
                   CLI_MODE, gpuLock, snapLock, hostPid, gpu, obs, tyLog>>

Command(t) ==
    /\ At(t, "c_cmd")
    /\ Set(t, [Done(Me(t)) EXCEPT !.retC = command(Me(t).argv)])
    /\ UNCHANGED <<ttlVars, running, HostINSTANCES, GpuINSTANCES, HOST_SNAPSHOTS,
                   CLI_MODE, gpuLock, snapLock, hostPid, gpu, obs, tyLog>>

\* ------------------- HostProcess.cpu_percent(), memory_percent()
\* The clock moves on.
Tick ==
    /\ NoneDone
    /\ now < MaxTime
    /\ now' = now + 1
    /\ UNCHANGED <<running, HostINSTANCES, GpuINSTANCES, HOST_SNAPSHOTS, CLI_MODE,
                   gpuLock, snapLock, hostPid, gpu, th, obs, tyLog, ttlCache, ttlLog>>

\* The key ttl_cache makes of the call's only argument, self: handles hash and
\* compare by the identity of their process.
hashkey(hh) == hostPid[hh]

ExpiredNever(e) == FALSE

\* TTLCache: an entry is gone once the timer has reached its expiry.
Expired(e) == ~(now < e.expires)

\* TTLCache.__getitem__: the entries under key k that have not expired.
Fresh(cache, k) == SelectSeq(cache, LAMBDA e : e.key = k /\ ~Expired(e))

\* The move of a used entry to the most recently used end.
Touched(cache, k) ==
    SelectSeq(cache, LAMBDA e : e.key # k) \o SelectSeq(cache, LAMBDA e : e.key = k)

\* Room for one more entry: the least recently used entries go.
RECURSIVE Trimmed(_)
Trimmed(cache) == IF Len(cache) < maxsize THEN cache ELSE Trimmed(Tail(cache))

\* TTLCache.__setitem__: expired entries are removed, then the least recently
\* used ones while the cache is full, and the entry expires ttl after now.
Inserted(cache, k, v, hh) ==
    Append(Trimmed(SelectSeq(cache, LAMBDA e : e.key # k /\ ~Expired(e))),
           [key |-> k, val |-> v, expires |-> now + Ttl, by |-> hh])

\* hh.cpu_percent() or hh.memory_percent(), lines 101-103: ttl_cache returns
\* the fresh entry under the key of hh, or calls the method of host.Process,
\* stores what it returns and returns it; a failure of the OS query raises
\* and stores nothing.
HostCached(t, hh, m) ==
    /\ At(t, "idle")
    /\ hostPid[hh] # 0
    /\ LET k == hashkey(hh)
           call == [NoTtlCall EXCEPT !.m = m, !.hh = hh,
                                     !.called = ttlLog.called[m][hh],
                                     !.measured = ttlLog.measured[m][hostPid[hh]]]
           from == [IdleThread EXCEPT !.op = "HostProcess.cached", !.pid = hostPid[hh],
                                      !.hinst = hh, !.ttl = call]
           hits == Fresh(ttlCache[m], k)
       IN IF Len(hits) > 0
          THEN /\ Set(t, [Done(from) EXCEPT !.hit = TRUE, !.retV = hits[1].val,
                                            !.ttl = [call EXCEPT !.by = hits[1].by]])
               /\ ttlCache' = [ttlCache EXCEPT ![m] = Touched(@, k)]
               /\ ttlLog' = IF hostPid[hh] \in Observed
                             THEN [ttlLog EXCEPT !.called[m][hh] =
                                      [some |-> TRUE, val |-> hits[1].val, at |-> now]]
                             ELSE ttlLog
          ELSE IF running[hostPid[hh]]
          THEN \E v \in OkVals(m) :
                 /\ Set(t, [Done(from) EXCEPT !.retV = v])
                 /\ ttlCache' = [ttlCache EXCEPT ![m] = Inserted(@, k, v, hh)]
                 /\ ttlLog' = IF hostPid[hh] \in Observed
                               THEN [ttlLog EXCEPT
                                       !.called[m][hh] = [some |-> TRUE, val |-> v, at |-> now],
                                       !.measured[m][hostPid[hh]] =
                                           [some |-> TRUE, val |-> v, at |-> now]]
                               ELSE ttlLog
          ELSE /\ Set(t, [Done(from) EXCEPT !.failed = {m}])
               /\ UNCHANGED <<ttlCache, ttlLog>>
    /\ UNCHANGED <<running, HostINSTANCES, GpuINSTANCES, HOST_SNAPSHOTS, CLI_MODE,
                   gpuLock, snapLock, hostPid, gpu, obs, tyLog, now>>

\* ------------------------------------------------------- specifications
\* The steps of the two constructors.
CtorSteps(t) ==
    \/ HostProcessNew(t)
    \/ HostProcessStore(t)
    \/ GpuProcessNew(t)
    \/ InitHost(t)
    \/ InitFin(t)
    \/ GpuProcessStore(t)
    \/ GpuProcessInvalidate(t)

\* The writes of __init__ to the fields of a registered object.
MemSteps(t) == InitMem(t) \/ SetHuman(t)

TypeSteps(t) ==
    \/ InitType(t)
    \/ TypeSetC(t)
    \/ TypeSetG(t)
    \/ TypeSetX(t)

FieldSteps(t) == MemSteps(t) \/ TypeSteps(t)

EvictSteps(t) == EvictGpu(t) \/ EvictHost(t)

SnapshotSteps(t) ==
    \/ AsSnapshotLock(t)
    \/ GatherIsRunning(t)
    \/ GatherStatus(t)
    \/ GatherQuery(t)
    \/ GatherDerive(t)
    \/ SnapshotMem(t)
    \/ SnapshotHuman(t)
    \/ SnapshotCompose(t)

UpdateSteps(t) ==
    \/ SetMem(t)
    \/ UpdateMem(t)
    \/ UpdateHuman(t)
    \/ DeviceProcesses(t)
    \/ UpdateReturn(t)

\* The thread of a sequential caller.
Main == CHOOSE t \in Threads : \A u \in Threads : t <= u

\* Registries, sequential use: one caller; the OS runs beside it.
NextReg ==
    \/ \E p \in Pids : CallHostProcess(Main, p)
    \/ \E p \in Pids, d \in Devices : CallGpuProcess(Main, p, d, NoneArg, NoType)
    \/ \E h \in GpuIds : CallCpuPercent(Main, h)
    \/ CtorSteps(Main) \/ EvictSteps(Main) \/ CpuPercent(Main) \/ Return(Main)
    \/ \E p \in Pids : Vanish(p)

SpecReg == Init /\ [][NextReg]_vars

\* Registries, concurrent use: the constructor calls of the threads overlap on
\* the keys of one pid.
RacePids == Observed

NextRegC ==
    \/ \E t \in Threads, p \in RacePids : CallHostProcess(t, p)
    \/ \E t \in Threads, p \in RacePids, d \in Devices :
          CallGpuProcess(t, p, d, NoneArg, NoType)
    \/ \E t \in Threads : CtorSteps(t) \/ Return(t)

SpecRegC == Init /\ [][NextRegC]_vars

\* Snapshots, sequential use, processes that stay: one caller creates handles
\* of two pids, takes snapshots, clears the cache and switches CLI_MODE.
SnapKeys == (Observed \X Devices) \cup ((Pids \ Observed) \X {0})

NextSnap ==
    \/ \E k \in SnapKeys : CallGpuProcess(Main, k[1], k[2], NoneArg, NoType)
    \/ \E h \in GpuIds : CallAsSnapshot(Main, h)
    \/ ClearHostSnapshots(Main)
    \/ \E b \in BOOLEAN : SetCliMode(Main, b)
    \/ CtorSteps(Main) \/ SnapshotSteps(Main) \/ Return(Main)

SpecSnap == Init /\ [][NextSnap]_vars

\* Snapshots, sequential use, a process that can vanish: one caller works on
\* the handles of the observed pid on every device; the OS runs beside it.
NextGc ==
    \/ \E p \in Observed, d \in Devices : CallGpuProcess(Main, p, d, NoneArg, NoType)
    \/ \E h \in GpuIds : CallAsSnapshot(Main, h)
    \/ ClearHostSnapshots(Main)
    \/ \E b \in BOOLEAN : SetCliMode(Main, b)
    \/ CtorSteps(Main) \/ SnapshotSteps(Main) \/ EvictSteps(Main) \/ Return(Main)
    \/ \E p \in Observed : Vanish(p)

SpecGc == Init /\ [][NextGc]_vars

\* Display fields, sequential use: one caller takes snapshots of the handles
\* of the observed pid; the OS reports every cpu percentage and command line of
\* CpuVals and ShownCmdlines, lets the process vanish and reuses its pid.
ShownSteps(t) ==
    \/ AsSnapshotLock(t)
    \/ GatherIsRunningReused(t)
    \/ GatherStatus(t)
    \/ GatherShown(t)
    \/ GatherDerive(t)
    \/ SnapshotMem(t)
    \/ SnapshotHuman(t)
    \/ SnapshotCompose(t)

NextShown ==
    \/ \E p \in Observed, d \in Devices : CallGpuProcess(Main, p, d, NoneArg, NoType)
    \/ \E h \in GpuIds : CallAsSnapshot(Main, h)
    \/ CtorSteps(Main) \/ ShownSteps(Main) \/ EvictSteps(Main) \/ Return(Main)
    \/ \E p \in Observed : Vanish(p)

SpecShown == Init /\ [][NextShown]_vars

\* The steps of HostProcess(pid).
HostSteps(t) == HostProcessNew(t) \/ HostProcessStore(t)

\* The ttl caches, sequential use: one caller creates host handles and calls
\* their cached methods while the clock moves and the processes vanish.
NextTtl ==
    \/ \E p \in Pids : CallHostProcess(Main, p)
    \/ \E hh \in HostIds, m \in TtlMethods : HostCached(Main, hh, m)
    \/ HostSteps(Main) \/ Return(Main)
    \/ Tick
    \/ \E p \in Observed : Vanish(p)

SpecTtl == Init /\ [][NextTtl]_vars

\* Construction, sequential use: one caller constructs and re-touches the
\* handles of the observed pid with and without gpu_memory and type.
NextCtor ==
    \/ \E p \in Observed, d \in Devices, m \in MemArgs, ty \in TypeArgs :
          CallGpuProcess(Main, p, d, m, ty)
    \/ CtorSteps(Main) \/ FieldSteps(Main) \/ Return(Main)

SpecCtor == Init /\ [][NextCtor]_vars

\* The type field, sequential use: one caller assigns type strings to the
\* handles of the observed pid, through the setter and through construction.
NextType ==
    \/ \E p \in Observed, d \in Devices, ty \in TypeStrings \cup {NoType} :
          CallGpuProcess(Main, p, d, NoneArg, ty)
    \/ \E h \in GpuIds, v \in TypeStrings : CallSetType(Main, h, v)
    \/ CtorSteps(Main) \/ TypeSteps(Main) \/ Return(Main)

SpecType == Init /\ [][NextType]_vars

\* Snapshots, concurrent use: every thread takes snapshots of the handles of
\* the observed pid while the main thread creates them, clears the cache and
\* switches CLI_MODE.
NextSnapC ==
    \/ \E p \in Observed, d \in Devices : CallGpuProcess(Main, p, d, NoneArg, NoType)
    \/ \E t \in Threads, h \in GpuIds : CallAsSnapshot(t, h)
    \/ ClearHostSnapshots(Main)
    \/ \E b \in BOOLEAN : SetCliMode(Main, b)
    \/ \E t \in Threads : CtorSteps(t) \/ SnapshotSteps(t) \/ Return(t)

SpecSnapC == Init /\ [][NextSnapC]_vars

\* The two locks of GpuProcess, concurrent use: the main thread creates the
\* handle of one key, again after an eviction, the other threads take snapshots
\* of it, while the process can vanish, which makes the queries of a gather
\* fail and evict.
LockKeys == Observed \X {CHOOSE d \in Devices : \A e \in Devices : d <= e}

NextLock ==
    \/ \E k \in LockKeys : CallGpuProcess(Main, k[1], k[2], NoneArg, NoType)
    \/ \E t \in Threads \ {Main}, h \in GpuIds : CallAsSnapshot(t, h)
    \/ \E t \in Threads : \/ CtorSteps(t) \/ SnapshotSteps(t)
                            \/ EvictSteps(t) \/ Return(t)
    \/ \E p \in Observed : Vanish(p)

SpecLock == Init /\ [][NextLock]_vars

\* Memory, concurrent use: the threads write the memory of the handle of one
\* key, through set_gpu_memory(), update_gpu_memory() and construction, and
\* take snapshots of it.
MemKeys == Observed \X {CHOOSE d \in Devices : \A e \in Devices : d <= e}

NextMemC ==
    \/ \E k \in MemKeys, m \in MemArgs : CallGpuProcess(Main, k[1], k[2], m, NoType)
    \/ \E t \in Threads, h \in GpuIds, v \in MemVals : CallSetGpuMemory(t, h, v)
    \/ \E t \in Threads, h \in GpuIds : CallUpdateGpuMemory(t, h)
    \/ \E t \in Threads, h \in GpuIds : CallAsSnapshot(t, h)
    \/ \E t \in Threads : \/ CtorSteps(t) \/ FieldSteps(t) \/ UpdateSteps(t)
                            \/ SnapshotSteps(t) \/ Return(t)

SpecMemC == Init /\ [][NextMemC]_vars

\* update_gpu_memory(), sequential use: one caller creates the handles of the
\* observed pid, refreshes their memory and asks for their cpu percentage; the
\* process can vanish, which evicts the handle queried next.
NextUpd ==
    \/ \E p \in Observed, d \in Devices : CallGpuProcess(Main, p, d, NoneArg, NoType)
    \/ \E h \in GpuIds : CallUpdateGpuMemory(Main, h)
    \/ \E h \in GpuIds : CallCpuPercent(Main, h)
    \/ CtorSteps(Main) \/ FieldSteps(Main)
    \/ UpdateMem(Main) \/ UpdateHuman(Main) \/ DeviceProcesses(Main) \/ UpdateReturn(Main)
    \/ EvictSteps(Main) \/ CpuPercent(Main) \/ Return(Main)
    \/ \E p \in Observed : Vanish(p)

SpecUpd == Init /\ [][NextUpd]_vars

\* command(), sequential use: one caller asks a host handle of the observed
\* pid for its command; the OS reports any argument vector.
NextCmd ==
    \/ \E p \in Observed : CallHostProcess(Main, p)
    \/ \E hh \in HostIds : CallCommand(Main, hh)
    \/ HostSteps(Main) \/ Command(Main) \/ Return(Main)

SpecCmd == Init /\ [][NextCmd]_vars

\* ------------------------------------------------------------ properties
\* A constructor call that has finished and whose result the caller is taking.
DoneCalls(o) == {t \in Threads : th[t].pc = "done" /\ th[t].op = o}

KeyOf(t) == <<th[t].pid, th[t].dev>>

\* C1: sequential identity uniqueness.  A HostProcess(pid) call returns the
\* object that the previous HostProcess(pid) call returned, unless the pid was
\* evicted since, and it is the object the registry holds for the pid; the same
\* for GpuProcess(pid, device) and its key.
C1_SameObject ==
    /\ \A t \in DoneCalls("HostProcess") :
          /\ th[t].retH = HostINSTANCES[th[t].pid]
          /\ obs.retHost[th[t].pid] # 0 => th[t].retH = obs.retHost[th[t].pid]
    /\ \A t \in DoneCalls("GpuProcess") :
          /\ th[t].retH = GpuINSTANCES[KeyOf(t)]
          /\ obs.retGpu[KeyOf(t)] # 0 => th[t].retH = obs.retGpu[KeyOf(t)]

\* A second GpuProcess call for a key returns while the first call's handle is
\* still registered, after some other key was evicted.
C1_Witness ==
    \E t \in DoneCalls("GpuProcess") :
        /\ obs.retGpu[KeyOf(t)] # 0
        /\ th[t].retH = obs.retGpu[KeyOf(t)]
        /\ obs.retHost[th[t].pid] # 0
        /\ obs.evGpu # {}

\* C2: identity uniqueness under concurrency, as claimed.  One object exists
\* per key, the handle a caller was given for a key is the one the registry
\* holds, and a call returns the handle the call before it returned.
C2_OneObjectPerKey ==
    /\ \A p \in Pids :
          /\ Cardinality({h \in HostIds : hostPid[h] = p}) <= 1
          /\ obs.retHost[p] # 0 => obs.retHost[p] = HostINSTANCES[p]
    /\ \A k \in Pids \X Devices :
          /\ Cardinality({h \in GpuIds : gpu[h].pid = k[1] /\ gpu[h].dev = k[2]}) <= 1
          /\ obs.retGpu[k] # 0 => obs.retGpu[k] = GpuINSTANCES[k]
    /\ \A t \in DoneCalls("HostProcess") :
          obs.retHost[th[t].pid] # 0 => th[t].retH = obs.retHost[th[t].pid]
    /\ \A t \in DoneCalls("GpuProcess") :
          obs.retGpu[KeyOf(t)] # 0 => th[t].retH = obs.retGpu[KeyOf(t)]

\* C3: eviction on vanish.  A cpu_percent() whose OS query raised returns 0.0
\* and leaves the handle's pid out of the host registry and its key out of the
\* device-process registry; and no constructor call returns an object that was
\* evicted.
C3_EvictOnVanish ==
    /\ \A t \in DoneCalls("cpu_percent") :
          th[t].failed # {} =>
             /\ th[t].retV = 0
             /\ HostINSTANCES[th[t].pid] = 0
             /\ GpuINSTANCES[KeyOf(t)] = 0
    /\ \A t \in DoneCalls("HostProcess") : th[t].retH \notin obs.evHost
    /\ \A t \in DoneCalls("GpuProcess") : th[t].retH \notin obs.evGpu

\* HostProcess(pid) returns a new object after the pid's object was evicted.
C3_Witness ==
    \E t \in DoneCalls("HostProcess") :
        /\ \E h \in obs.evHost : hostPid[h] = th[t].pid
        /\ th[t].retH \notin obs.evHost
        /\ th[t].retH # 0

\* C4 as claimed: whenever as_snapshot() has returned a snapshot for handles of
\* one pid on two devices with no clear between, one gather was made for the pid.
C4_OneGatherAnyMode ==
    \A p \in Observed :
        Cardinality(obs.tick[p].devs) >= 2 => obs.gathers[p] = 1

\* C4: snapshot cache amortization, with CLI_MODE set all through the tick (no
\* clear and no new device handle of the pid since the tick began): once
\* as_snapshot() has returned a snapshot for the pid, on one device or on
\* several, exactly one gather was made for the pid since the tick began; so
\* the first call after a clear gathers anew and the calls after it do not.
C4_OneGatherPerTick ==
    \A p \in Observed :
        (obs.tick[p].cli /\ obs.tick[p].devs # {}) => obs.gathers[p] = 1

\* Snapshots of the pid on two devices were returned in one tick of cache mode.
C4_Witness ==
    \E p \in Observed :
        /\ obs.tick[p].cli
        /\ Cardinality(obs.tick[p].devs) >= 2
        /\ obs.gathers[p] = 1

\* What a GpuProcess call may do to the host snapshot cache in one step: drop
\* the entry of its own pid, and only when the call created the object.
C8_Step ==
    \A q \in Pids :
        (th[Main].op = "GpuProcess" /\ HOST_SNAPSHOTS'[q] # HOST_SNAPSHOTS[q]) =>
            /\ q = th[Main].pid
            /\ th[Main].isNew
            /\ HOST_SNAPSHOTS'[q] = NoHostSnapshot

C8_AtReturn ==
    \A t \in DoneCalls("GpuProcess") :
        th[t].isNew => ~HOST_SNAPSHOTS[th[t].pid].some

\* C8: cache invalidation on a new device handle.  When GpuProcess(pid, device)
\* returns an object it created, the cache holds no entry for the pid; during
\* the call the entries of the other pids do not change; and a call that
\* returns the registered object changes no entry.
C8_InvalidateOnCreate == []C8_AtReturn /\ [][C8_Step]_vars

\* A creation returns after it dropped the pid's entry, another pid's entry
\* being in the cache.
C8_Witness ==
    \E t \in DoneCalls("GpuProcess") :
        /\ th[t].isNew
        /\ th[t].hit
        /\ \E q \in Pids \ {th[t].pid} : HOST_SNAPSHOTS[q].some

\* C9 as claimed: an as_snapshot() in which any host query failed yields None.
C9_AnyFailureYieldsNone ==
    \A t \in DoneCalls("as_snapshot") : th[t].failed # {} => ~th[t].retS.some

\* C9: garbage collection of as_snapshot().  A failure of status() yields None;
\* a failure of username(), name(), cmdline(), cpu_percent(), memory_percent()
\* or running_time() yields a snapshot that carries the query's default; either
\* failure evicts the handle's pid and key; and a call in which nothing failed
\* yields a snapshot.
C9_StatusFailureYieldsNone ==
    \A t \in DoneCalls("as_snapshot") :
        /\ th[t].retS.some <=> "status" \notin th[t].failed
        /\ th[t].failed # {} =>
              /\ HostINSTANCES[th[t].pid] = 0
              /\ GpuINSTANCES[KeyOf(t)] = 0
        /\ \A k \in th[t].failed \ {"status"} : th[t].retS.host[k] = QueryDefault(k)

\* An as_snapshot() returns a snapshot although username() failed in it.
C9_Witness ==
    \E t \in DoneCalls("as_snapshot") :
        /\ "username" \in th[t].failed
        /\ th[t].retS.some
        /\ GpuINSTANCES[KeyOf(t)] = 0

\* The classification of a set of flags: both letters, or the combined marker,
\* give the combined marker.
MergedType(flags) ==
    IF "X" \in flags \/ {"C", "G"} \subseteq flags THEN <<"X">>
    ELSE IF "C" \in flags THEN <<"C">>
    ELSE IF "G" \in flags THEN <<"G">>
    ELSE << >>

\* The objects no assignment to the type of which is under way.
TypeSettled == {h \in GpuIds : tyLog[h].last # UnsetType /\
                  \A t \in Threads : th[t].inst = h => th[t].pc \notin {"ty_c", "ty_g", "ty_x"}}

C7_Step ==
    \A h \in GpuIds :
        (th[Main].op = "GpuProcess" /\ gpu[h].pub /\ gpu'[h].pub) =>
            /\ th[Main].mem = NoneArg =>
                  gpu'[h].mem = gpu[h].mem /\ gpu'[h].human = gpu[h].human
            /\ th[Main].ty = NoType => gpu'[h].type = gpu[h].type

C7_AtReturn ==
    \A t \in DoneCalls("GpuProcess") :
        LET o == gpu[th[t].retH] IN
        /\ th[t].mem # NoneArg => o.mem = th[t].mem /\ o.human = bytes2humanRaw(th[t].mem)
        /\ th[t].ty # NoType => o.type = MergedType(Letters(th[t].ty))
        /\ (th[t].isNew /\ th[t].mem = NoneArg) =>
               o.mem = NA /\ o.human = bytes2humanRaw(NA)
        /\ (th[t].isNew /\ th[t].ty = NoType) => o.type = << >>

\* C7: construction merge-update.  A GpuProcess call that creates the object
\* returns it with 'N/A' for an omitted gpu_memory and '' for an omitted type;
\* every call returns the object with the supplied values in the supplied
\* fields; and a call changes no omitted field of a registered object.
C7_MergeUpdate == []C7_AtReturn /\ [][C7_Step]_vars

\* A re-touch with both arguments omitted returns an object that keeps a
\* memory value and a type given earlier.
C7_Witness ==
    \E t \in DoneCalls("GpuProcess") :
        /\ ~th[t].isNew
        /\ th[t].mem = NoneArg /\ th[t].ty = NoType
        /\ gpu[th[t].retH].mem \in MemVals
        /\ gpu[th[t].retH].type # << >>

\* C5 as claimed: when as_snapshot() has returned a snapshot to several threads
\* for one pid in one tick, one gather was made for the pid.
C5_OneGatherAnyMode ==
    \A p \in Observed :
        Cardinality(obs.tick[p].threads) >= 2 => obs.gathers[p] = 1

\* C5: concurrent at-most-once gather, with CLI_MODE set all through the tick.
\* Once as_snapshot() has returned a snapshot for the pid to one thread or to
\* several, exactly one gather was made for the pid since the tick began, and
\* all the snapshots returned carry the same host values.
C5_OneGatherPerTick ==
    \A p \in Observed :
        (obs.tick[p].cli /\ obs.tick[p].threads # {}) =>
            /\ obs.gathers[p] = 1
            /\ Cardinality(obs.tick[p].vals) = 1

\* Both threads were given a snapshot of the pid in one tick of cache mode.
C5_Witness ==
    \E p \in Observed :
        /\ obs.tick[p].cli
        /\ obs.tick[p].threads = Threads
        /\ obs.gathers[p] = 1

\* C10 as claimed: in every snapshot that as_snapshot() returns,
\* gpu_memory_human is the human rendering of gpu_memory.
C10_HumanMatchesMemory ==
    \A t \in DoneCalls("as_snapshot") :
        th[t].retS.some =>
            th[t].retS.gpu_memory_human = bytes2humanRaw(th[t].retS.gpu_memory)

\* C11 as claimed: command() of a vector of more than one argument is the
\* quoted forms of all its arguments, in order, joined by single spaces, an
\* empty argument giving "" in any position; command() of a vector of one
\* argument is that argument.
C11_QuotesEveryArgument ==
    \A t \in DoneCalls("command") :
        /\ Len(th[t].argv) > 1 => th[t].retC = Joined(<<" ">>, Quoted(th[t].argv))
        /\ Len(th[t].argv) = 1 => th[t].retC = th[t].argv[1]


\* The snapshots as_snapshot() returned from a gather of its own.
Gathered == {t \in DoneCalls("as_snapshot") : th[t].retS.some /\ ~th[t].hit}

\* A percentage shown with one decimal place: tenths / 10.
Shown(tenths) == ToString(tenths \div 10) \o "." \o ToString(tenths % 10) \o "%"

\* C12 as claimed: cpu_percent_string is, for a cpu_percent below 1000, a value
\* below 1000 with one decimal place that is the nearest to cpu_percent (never
\* '1000.0%'); from 1000 up to but not including 10000, the integer part and
\* '%'; at or above 10000, '9999+%'.
C12_CpuBands ==
    \A t \in Gathered :
        LET v == th[t].retS.host.cpu_percent
            str == th[t].retS.host.cpu_percent_string
            below == (10 * v) \div Frac
        IN /\ v < 1000 * Frac =>
                \E tenths \in {below, below + 1} :
                    /\ tenths < 10000
                    /\ 2 * (IF 10 * v >= tenths * Frac THEN 10 * v - tenths * Frac
                                                        ELSE tenths * Frac - 10 * v) <= Frac
                    /\ str = Shown(tenths)
           /\ (v >= 1000 * Frac /\ v < 10000 * Frac) => str = ToString(v \div Frac) \o "%"
           /\ v >= 10000 * Frac => str = "9999+%"


\* C17: the not-live override.  A snapshot as_snapshot() returned from a gather
\* of its own carries the gathered liveness flag; when the flag is false its
\* running_time_human is 'N/A', its cmdline is ('No Such Process',) and its
\* command is 'No Such Process', whatever command line was gathered; when the
\* flag is true its running_time_human renders the gathered running time and
\* its cmdline and command are those of the gathered command line.
C17_NotLiveOverride ==
    \A t \in Gathered :
        LET g == th[t].gathered
            s == th[t].retS.host
        IN /\ s.is_running = g.is_running
           /\ ~g.is_running =>
                /\ s.running_time_human = NoDuration
                /\ s.cmdline = <<NoSuchProcess>>
                /\ s.command = NoSuchProcess
           /\ g.is_running =>
                /\ s.running_time_human = timedelta2human(g.running_time)
                /\ s.cmdline = Renormalised(g.cmdline)
                /\ s.command = command(g.cmdline)

\* A snapshot of a process that is not live whose gathered command line had
\* two arguments.
C17_Witness ==
    \E t \in Gathered :
        /\ ~th[t].gathered.is_running
        /\ Len(th[t].gathered.cmdline) = 2
        /\ th[t].retS.host.command = NoSuchProcess


\* What the two steps of an eviction may do to the registries.
C13_Step ==
    \A t \in Threads :
        LET h == th[t].self
            k == <<gpu[h].pid, gpu[h].dev>>
        IN /\ (th[t].pc = "e_gpu" /\ th'[t].pc # "e_gpu") =>
                /\ th'[t].pc = "e_host"
                /\ HostINSTANCES' = HostINSTANCES
                /\ \A j \in DOMAIN GpuINSTANCES : j # k => GpuINSTANCES'[j] = GpuINSTANCES[j]
                /\ GpuINSTANCES[k] = 0 => GpuINSTANCES' = GpuINSTANCES
           /\ (th[t].pc = "e_host" /\ th'[t].pc # "e_host") =>
                /\ th'[t].pc \in {"done", "a_query", "a_derive"}
                /\ GpuINSTANCES' = GpuINSTANCES
                /\ \A q \in Pids : q # k[1] => HostINSTANCES'[q] = HostINSTANCES[q]
                /\ HostINSTANCES[k[1]] = 0 => HostINSTANCES' = HostINSTANCES

C13_Twice ==
    \A h \in Published :
        /\ EvictedGpu(EvictedGpu(GpuINSTANCES, h), h) = EvictedGpu(GpuINSTANCES, h)
        /\ EvictedHost(EvictedHost(HostINSTANCES, h), h) = EvictedHost(HostINSTANCES, h)

\* C13: eviction is idempotent.  The eviction of a handle removes at most the
\* entry under the handle's own key from each registry and goes on without an
\* error; where the key is absent the registry stays as it is; and evicting a
\* handle a second time changes nothing the first eviction left.
C13_EvictionIdempotent == []C13_Twice /\ [][C13_Step]_vars

\* An eviction that found the (pid, device) key absent, another handle of
\* another key being registered, and is about to find the pid absent too.
C13_Witness ==
    \E t \in Threads :
        /\ th[t].pc = "e_host"
        /\ ~th[t].had
        /\ HostINSTANCES[th[t].pid] = 0
        /\ \E k \in DOMAIN GpuINSTANCES : GpuINSTANCES[k] # 0


\* While CLI_MODE stays off, no step puts an entry into HOST_SNAPSHOTS.
C14_Step ==
    (~CLI_MODE /\ ~CLI_MODE') =>
        \A p \in Pids : HOST_SNAPSHOTS'[p].some => HOST_SNAPSHOTS[p].some

\* An as_snapshot() that returns with CLI_MODE off has gathered; one that
\* gathered and returns with CLI_MODE on has stored what it returns.
C14_AtReturn ==
    \A t \in DoneCalls("as_snapshot") :
        /\ ~CLI_MODE => ~th[t].hit
        /\ (CLI_MODE /\ th[t].retS.some /\ ~th[t].hit) =>
               HOST_SNAPSHOTS[th[t].pid] = th[t].retS.host

\* C14 as claimed: while CLI_MODE is off no as_snapshot(), handle creation or
\* clear_host_snapshots() puts an entry into the host snapshot cache and every
\* as_snapshot() performs its own gather; while CLI_MODE is on a successful
\* gather stores the derived host snapshot under the pid.
C14_FlagGatesCache == []C14_AtReturn /\ [][C14_Step]_vars


\* The cached calls on a handle of the observed pid that have returned.
CachedCalls == {t \in DoneCalls("HostProcess.cached") : th[t].pid \in Observed}

\* C15 as claimed: a cpu_percent() or memory_percent() call made less than one
\* time unit after the previous successful call on the same handle returns
\* that call's value without an OS query; a call made one time unit or more
\* after it issues an OS query; and a value served from the cache was stored
\* for the same process identity.
C15_WithinTtlOfLastCall ==
    \A t \in CachedCalls :
        LET c == th[t].ttl IN
        /\ (c.called.some /\ now - c.called.at < Ttl) =>
               (th[t].hit /\ th[t].retV = c.called.val)
        /\ (c.called.some /\ now - c.called.at >= Ttl) => ~th[t].hit
        /\ th[t].hit => hostPid[c.by] = hostPid[c.hh]

\* C15, amended: the window runs from the last OS query for the process
\* identity, not from the last call.  A call made less than one time unit after
\* that query returns the value it measured without an OS query; any other
\* call issues an OS query; and a value served from the cache was stored for
\* the same process identity.
C15_WithinTtlOfLastQuery ==
    \A t \in CachedCalls :
        LET c == th[t].ttl IN
        /\ (c.measured.some /\ now - c.measured.at < Ttl) =>
               (th[t].hit /\ th[t].retV = c.measured.val)
        /\ (~c.measured.some \/ now - c.measured.at >= Ttl) => ~th[t].hit
        /\ th[t].hit => hostPid[c.by] = hostPid[c.hh]

\* A call served from the cache after an earlier call was served from it too,
\* the cache holding an entry of another process as well.
C15_Witness ==
    \E t \in CachedCalls :
        LET c == th[t].ttl IN
        /\ th[t].hit
        /\ c.called.some /\ c.measured.some
        /\ c.called.at > c.measured.at
        /\ \E i \in DOMAIN ttlCache[c.m] : ttlCache[c.m][i].key # th[t].pid


\* C16: the refresh of update_gpu_memory().  On a handle registered under its
\* (pid, device) the call returns the memory the device reported for the pid
\* in this refresh, and 'N/A' when the device did not report the pid; what it
\* returns is the handle's memory, and the human string is its rendering.
C16_RefreshReturnsReported ==
    \A t \in DoneCalls("update_gpu_memory") :
        LET h == th[t].self IN
        /\ th[t].retV = gpu[h].mem
        /\ gpu[h].human = bytes2human(gpu[h].mem)
        /\ th[t].mem = NoneArg => th[t].retV = NA
        /\ (th[t].mem # NoneArg /\ GpuINSTANCES[KeyOf(t)] = h) => th[t].retV = th[t].mem

\* A refresh of a registered handle that held a memory value and returns
\* 'N/A', the device not reporting the pid any more.
C16_Witness ==
    \E t \in DoneCalls("update_gpu_memory") :
        /\ GpuINSTANCES[KeyOf(t)] = th[t].self
        /\ th[t].mem = NoneArg
        /\ th[t].retV = NA
        /\ \E h \in Published : h # th[t].self /\ gpu[h].mem \in MemVals


\* A thread that holds SNAPSHOT_LOCK and waits, in an eviction, for
\* GpuProcess.INSTANCE_LOCK.
HoldsSnapshotWantsInstance(t) ==
    th[t].pc = "e_gpu" /\ snapLock = t /\ gpuLock \notin {0, t}

\* A thread that holds GpuProcess.INSTANCE_LOCK and waits, in __new__, for
\* SNAPSHOT_LOCK.
HoldsInstanceWantsSnapshot(t) ==
    th[t].pc = "g_inval" /\ gpuLock = t /\ snapLock \notin {0, t}

\* C18 as claimed: no state is reachable in which one thread holds the
\* snapshot-cache lock and waits for the device-process registry lock while
\* another holds the registry lock and waits for the snapshot-cache lock.
C18_NoLockCycle ==
    ~\E t \in Threads, u \in Threads :
        HoldsSnapshotWantsInstance(t) /\ HoldsInstanceWantsSnapshot(u)


\* What the eviction run for handle h may remove: entries that hold h, or the
\* host handle of h.
C19_Step ==
    \A t \in Threads :
        LET h == th[t].self IN
        /\ (th[t].pc = "e_gpu" /\ th'[t].pc # "e_gpu") =>
               \A k \in DOMAIN GpuINSTANCES :
                   GpuINSTANCES'[k] # GpuINSTANCES[k] => GpuINSTANCES[k] = h
        /\ (th[t].pc = "e_host" /\ th'[t].pc # "e_host") =>
               \A p \in Pids :
                   HostINSTANCES'[p] # HostINSTANCES[p] => HostINSTANCES[p] = gpu[h].host

\* C19 as claimed: when an operation on a handle h fails with a process-vanished
\* error, the eviction removes a registry entry only if the entry holds h itself
\* or the host handle of h; a newer handle registered under the same key stays.
C19_EvictsOnlyItself == [][C19_Step]_vars


\* C20 as claimed: registry coherence.  Between the calls of a sequential
\* caller every device-process handle registered under (pid, device) has as
\* its host the host handle registered under pid.
C20_RegistriesCoherent ==
    (\A t \in Threads : th[t].pc = "idle") =>
        \A k \in DOMAIN GpuINSTANCES :
            GpuINSTANCES[k] # 0 =>
                /\ HostINSTANCES[k[1]] # 0
                /\ gpu[GpuINSTANCES[k]].host = HostINSTANCES[k[1]]

====
